---- MODULE Spec2Model ----
(***************************************************************************)
(* A model of jestat (src/jevents/examples/jestat.c): "poor man's perf     *)
(* stat".  The parent process parses its options, forks the monitored      *)
(* child, opens the counters, releases the child through a pipe, waits for *)
(* it (interrupted by the interval timer) and prints the counters.         *)
(*                                                                         *)
(* The counter library (parse_events, setup_events_cpumask,                *)
(* read_all_events, event_scaled_value) is not part of the source file; it *)
(* is modelled from its contract in spec.md (sections 3, 4.1-4.3).         *)
(*                                                                         *)
(* The uint64_t accumulator of print_data_aggr is modelled without         *)
(* wrap-around: the counts of the model are far below 2^64.                *)
(***************************************************************************)
EXTENDS Integers, Sequences, FiniteSets, TLC

\* ------------------------------------------------------------------ bounds
\* Number of options on the command line.
MaxOpts == 2
\* Number of SIGALRM deliveries of the interval timer.
MaxTicks == 2
\* Largest enabled time of the counter snapshots the scaling is applied to.
MaxTime == 4

\* The CPUs of the machine; alloc_eventlist sets el->num_cpus from them.
Cpus == {0, 1}
num_cpus == Cardinality(Cpus)

\* ------------------------------------------------------- environment inputs
\* char *events, the default event list (a comma separated string, here the
\* sequence of its tokens).
DefaultEvents == <<"instructions", "cpu-cycles", "cache-misses", "cache-references">>

\* The arguments of -e on the command line, as token sequences.
EventSpecs == { <<"cpu-cycles">>, <<"instructions", "cache-misses">>, <<"bogus_event_xyz">> }

\* The event names the event database resolves: the full one, and one that was
\* not downloaded completely.
EventDbs == { {"instructions", "cpu-cycles", "cache-misses", "cache-references"},
              {"instructions", "cpu-cycles", "cache-misses"} }

\* atoi(optarg) of -I.
Intervals == {0, 100}

\* char *cpumask: NULL, or a mask naming a set of CPUs.
NullMask == [set |-> FALSE, cpus |-> {}]
CpuMasks == { [set |-> TRUE, cpus |-> {0}], [set |-> TRUE, cpus |-> {}] }

\* Process ids fork() returns to the parent.
Pids == {100}

\* What the kernel returns for one counter: <<raw count, time enabled, time
\* running>>.  A counter that never ran has counted nothing.
Snaps == { <<5, 2, 2>>, <<3, 3, 2>>, <<0, 2, 0>> }
ZeroVal == <<0, 0, 0>>

VARIABLES
    pc,             \* position of the parent in main
    exit_status,    \* -1 while the parent runs, else its exit status
    observed,       \* the run is recorded: its calls are logged, its timer expirations counted
    eargs,          \* the arguments of the -e options given so far, in order
    has_cmd,        \* av[optind] != NULL
    nopts,          \* options consumed by getopt_long so far
    events,         \* events != NULL: the default list is still to be parsed
    el,             \* the event list: the names of its events, in order
    measure_all, measure_pid, child_pid, interval, cpumask, no_aggr, verbose,
    efd,            \* efd[e][i]: the descriptor of event e on cpu i, -1: not applicable
    val,            \* val[e][i]: the snapshot <<raw, enabled, running>> last read
    gotalarm, starttime, ret,
    ticks,          \* SIGALRM deliveries so far
    timer_armed,    \* setitimer has armed the interval timer
    sigint_set,     \* signal(SIGINT, sigint) was called
    sigint_seen,    \* a SIGINT reached the parent after that call
    child,          \* the forked child: none, reading, running, paused, exited
    execd,          \* the child has exec'ed the monitored command
    pipe_bytes,     \* bytes in child_pipe
    wr_open,        \* the processes holding child_pipe[1] open
    setup_args,     \* the arguments of the setup_events_cpumask call
    read_rc,        \* what the last read_all_events returned
    hw,             \* the counters in the kernel, as the last read pass met them
    steady,         \* the last two read passes returned 0 with no counter advance between
    out,            \* the lines of the last print_data
    scaled,         \* the (event, cpu) pairs the last print_data scaled
    log             \* the library and system calls of the parent, in order

optvars == <<observed, eargs, has_cmd, nopts, events, el, measure_all, interval, cpumask, no_aggr, verbose>>
forkvars == <<measure_pid, child_pid>>
childvars == <<child, execd, pipe_bytes>>
sigvars == <<gotalarm, starttime, ret, ticks, timer_armed, sigint_set, sigint_seen>>
datavars == <<efd, val, read_rc, hw, steady, out, scaled>>
vars == <<pc, exit_status, log, optvars, forkvars, childvars, wr_open, setup_args,
          sigvars, datavars>>

NoArgs == [called |-> FALSE, measure_all |-> FALSE, measure_pid |-> -1, cpumask |-> NullMask]

Start ==
    /\ pc = "getopt"
    /\ eargs = << >>
    /\ exit_status = -1
    /\ has_cmd \in BOOLEAN
    /\ nopts = 0
    /\ events = TRUE
    /\ el = << >>
    /\ measure_all = FALSE
    /\ measure_pid = -1
    /\ child_pid = -1
    /\ interval = 0
    /\ cpumask = NullMask
    /\ no_aggr = FALSE
    /\ verbose = 0
    /\ efd = << >>
    /\ val = << >>
    /\ gotalarm = FALSE
    /\ starttime = 0
    /\ ret = 0
    /\ ticks = 0
    /\ timer_armed = FALSE
    /\ sigint_set = FALSE
    /\ sigint_seen = FALSE
    /\ child = "none"
    /\ execd = FALSE
    /\ pipe_bytes = 0
    /\ wr_open = {}
    /\ setup_args = NoArgs
    /\ read_rc = 0
    /\ hw = ZeroVal
    /\ steady = FALSE
    /\ out = << >>
    /\ scaled = {}
    /\ log = << >>

Init == observed = TRUE /\ Start

\* The log after the calls xs; a run that is not observed keeps no log.
Logged(xs) == IF observed THEN log \o xs ELSE log

\* ------------------------------------------------------------ the library

\* parse_events(el, s) < 0: the event database does not resolve a token of s.
parse_fails(s, known) == \E k \in 1 .. Len(s) : s[k] \notin known

\* The event list after a successful parse_events(el, s): s is appended.
parse_events(s) == el \o s

\* The handles setup_events_cpumask opens: one per event and CPU, and the
\* "not applicable" sentinel -1 on a CPU the mask excludes.
setup_events_cpumask(mask) ==
    [e \in 1 .. Len(el) |->
        [i \in Cpus |-> IF mask.set /\ i \notin mask.cpus THEN -1
                        ELSE 3 + (e * num_cpus) + i]]

\* What the kernel returns for event e on cpu i at a read that sees s.
Sample(s, e, i) == IF s[3] = 0 THEN s ELSE <<s[1] + e + i, s[2], s[3]>>

\* A read pass that adds what it reads to the stored counts.
read_pass_adds(s) ==
    [e \in 1 .. Len(el) |->
        [i \in Cpus |-> IF efd[e][i] < 0 THEN val[e][i]
                        ELSE <<val[e][i][1] + Sample(s, e, i)[1], Sample(s, e, i)[2],
                               Sample(s, e, i)[3]>>]]

\* The snapshots after a read_all_events pass that sees s: every handle that
\* is not "not applicable" is overwritten.
read_pass(s) ==
    [e \in 1 .. Len(el) |->
        [i \in Cpus |-> IF efd[e][i] < 0 THEN val[e][i] ELSE Sample(s, e, i)]]

\* A read pass has been made.
has_read == \E k \in 1 .. Len(log) : log[k] \in {"read", "read_err"}

\* read_all_events(el).  The pass meets the counters at s: advanced since the
\* last pass, or still where that pass met them (s = hw).  A failing pass (the
\* monitored process has vanished) returns -1 and refreshes nothing.
read_all_events ==
    /\ \E s \in Snaps \cup {hw}, ok \in BOOLEAN :
        /\ hw' = s
        /\ val' = IF ok THEN read_pass(s) ELSE val
        /\ read_rc' = IF ok THEN 0 ELSE -1
        /\ steady' = (has_read /\ s = hw /\ ok /\ read_rc = 0)
        /\ log' = Logged(<< IF ok THEN "read" ELSE "read_err" >>)
    /\ UNCHANGED efd

\* event_scaled_value with the ratio of the two times inverted.
event_scaled_value_inverted(e, i) ==
    LET v == val[e][i]
    IN  IF v[2] > 0 THEN (v[1] * v[3]) \div v[2] ELSE 0

\* event_scaled_value(e, i): raw * enabled / running, truncated.
event_scaled_value(e, i) ==
    LET v == val[e][i]
    IN  IF v[3] > 0 THEN (v[1] * v[2]) \div v[3] ELSE 0

\* gettime(): the clock advances with the expirations of the timer.
gettime == 1 + ticks

\* ------------------------------------------------------------- print_data

\* v after the first n rounds of the loop over the CPUs in print_data_aggr.
RECURSIVE aggr_sum(_, _)
aggr_sum(e, n) ==
    IF n = 0 THEN 0 ELSE aggr_sum(e, n - 1) + event_scaled_value(e, n - 1)

Line(cpu, e, v, ts, print_ts) ==
    [cpu |-> cpu, name |-> el[e], v |-> v, has_ts |-> print_ts,
     ts |-> IF print_ts THEN ts ELSE 0]

\* print_data_aggr with its loop over the CPUs started at 1.
print_data_aggr_from1(ts, print_ts) ==
    [lines |-> [e \in 1 .. Len(el) |->
                    Line(-1, e, aggr_sum(e, num_cpus) - event_scaled_value(e, 0), ts, print_ts)],
     calls |-> { <<e, i>> : e \in 1 .. Len(el), i \in 1 .. (num_cpus - 1) }]

\* print_data_aggr: one line per event; event_scaled_value is called for
\* every i < el->num_cpus.
print_data_aggr(ts, print_ts) ==
    [lines |-> [e \in 1 .. Len(el) |-> Line(-1, e, aggr_sum(e, num_cpus), ts, print_ts)],
     calls |-> { <<e, i>> : e \in 1 .. Len(el), i \in 0 .. (num_cpus - 1) }]

\* The lines print_data_no_aggr prints from event e, cpu i on.
RECURSIVE no_aggr_lines(_, _, _, _)
no_aggr_lines(e, i, ts, print_ts) ==
    IF e > Len(el) THEN << >>
    ELSE IF i >= num_cpus THEN no_aggr_lines(e + 1, 0, ts, print_ts)
    ELSE (IF efd[e][i] < 0 THEN << >>
          ELSE << Line(i, e, event_scaled_value(e, i), ts, print_ts) >>)
         \o no_aggr_lines(e, i + 1, ts, print_ts)

\* print_data_no_aggr: one line per event and CPU with a descriptor.
print_data_no_aggr(ts, print_ts) ==
    [lines |-> no_aggr_lines(1, 0, ts, print_ts),
     calls |-> { c \in (1 .. Len(el)) \X (0 .. (num_cpus - 1)) : efd[c[1]][c[2]] >= 0 }]

\* print_data that reads the counters again before it renders them.
print_data_rereads(ts, print_ts) ==
    LET p == IF no_aggr THEN print_data_no_aggr(ts, print_ts)
             ELSE print_data_aggr(ts, print_ts)
    IN  /\ out' = p.lines
        /\ scaled' = p.calls
        /\ \E s \in Snaps : val' = read_pass(s)
        /\ UNCHANGED <<el, efd, read_rc, hw, steady>>

\* print_data(el, ts, print_ts, no_aggr)
print_data(ts, print_ts) ==
    LET p == IF no_aggr THEN print_data_no_aggr(ts, print_ts)
             ELSE print_data_aggr(ts, print_ts)
    IN  /\ out' = p.lines
        /\ scaled' = p.calls
        /\ UNCHANGED <<el, efd, val, read_rc, hw, steady>>

PrintOp(print_ts) == IF print_ts THEN "print_ts" ELSE "print"

\* ------------------------------------------------------ main: the options

\* exit(status), also the return from main: the parent's descriptors close.
Exit(status) ==
    /\ pc' = "exited"
    /\ exit_status' = status
    /\ wr_open' = wr_open \ {"parent"}

\* case 'e' without events = NULL: the default list is still to be parsed.
OptE_keeps_default ==
    /\ pc = "getopt" /\ nopts < MaxOpts
    /\ \E s \in EventSpecs, known \in EventDbs :
        /\ IF parse_fails(s, known)
           THEN /\ Exit(1)
                /\ log' = Logged(<< "parse_fail" >>)
                /\ UNCHANGED el
           ELSE /\ el' = parse_events(s)
                /\ log' = Logged(<< "parse_ok" >>)
                /\ UNCHANGED <<pc, exit_status, wr_open>>
        /\ eargs' = Append(eargs, s)
    /\ nopts' = nopts + 1
    /\ UNCHANGED <<observed, has_cmd, events, measure_all, interval, cpumask, no_aggr, verbose>>
    /\ UNCHANGED <<forkvars, childvars, setup_args, sigvars, datavars>>

\* case 'e'
OptE ==
    /\ pc = "getopt" /\ nopts < MaxOpts
    /\ \E s \in EventSpecs, known \in EventDbs :
        /\ IF parse_fails(s, known)
           THEN /\ Exit(1)
                /\ log' = Logged(<< "parse_fail" >>)
                /\ UNCHANGED <<el, events>>
           ELSE /\ el' = parse_events(s)
                /\ events' = FALSE
                /\ log' = Logged(<< "parse_ok" >>)
                /\ UNCHANGED <<pc, exit_status, wr_open>>
        /\ eargs' = Append(eargs, s)
    /\ nopts' = nopts + 1
    /\ UNCHANGED <<observed, has_cmd, measure_all, interval, cpumask, no_aggr, verbose>>
    /\ UNCHANGED <<forkvars, childvars, setup_args, sigvars, datavars>>

\* case 'a'
OptA ==
    /\ pc = "getopt" /\ nopts < MaxOpts
    /\ measure_all' = TRUE
    /\ nopts' = nopts + 1
    /\ UNCHANGED <<observed, eargs, has_cmd, events, el, interval, cpumask, no_aggr, verbose>>
    /\ UNCHANGED <<pc, exit_status, log, forkvars, childvars, wr_open, setup_args,
                   sigvars, datavars>>

\* case 'I'
OptI ==
    /\ pc = "getopt" /\ nopts < MaxOpts
    /\ \E n \in Intervals : interval' = n
    /\ nopts' = nopts + 1
    /\ UNCHANGED <<observed, eargs, has_cmd, events, el, measure_all, cpumask, no_aggr, verbose>>
    /\ UNCHANGED <<pc, exit_status, log, forkvars, childvars, wr_open, setup_args,
                   sigvars, datavars>>

\* case 'C'
OptC ==
    /\ pc = "getopt" /\ nopts < MaxOpts
    /\ \E m \in CpuMasks : cpumask' = m
    /\ nopts' = nopts + 1
    /\ UNCHANGED <<observed, eargs, has_cmd, events, el, measure_all, interval, no_aggr, verbose>>
    /\ UNCHANGED <<pc, exit_status, log, forkvars, childvars, wr_open, setup_args,
                   sigvars, datavars>>

\* case 'A'
OptNoAggr ==
    /\ pc = "getopt" /\ nopts < MaxOpts
    /\ no_aggr' = TRUE
    /\ nopts' = nopts + 1
    /\ UNCHANGED <<observed, eargs, has_cmd, events, el, measure_all, interval, cpumask, verbose>>
    /\ UNCHANGED <<pc, exit_status, log, forkvars, childvars, wr_open, setup_args,
                   sigvars, datavars>>

\* case 'v': verbose++.  verbose is only ever tested against zero, so the
\* model keeps whether it is zero.
OptV ==
    /\ pc = "getopt" /\ nopts < MaxOpts
    /\ verbose' = 1
    /\ nopts' = nopts + 1
    /\ UNCHANGED <<observed, eargs, has_cmd, events, el, measure_all, interval, cpumask, no_aggr>>
    /\ UNCHANGED <<pc, exit_status, log, forkvars, childvars, wr_open, setup_args,
                   sigvars, datavars>>

\* default: usage().  getopt_long returns 'p' for -p pid (it is in the option
\* string) and '?' for an unknown option; neither has a case of its own.
OptUsage ==
    /\ pc = "getopt" /\ nopts < MaxOpts
    /\ \E opt \in {"p", "?"} :
        /\ Exit(1)
        /\ log' = Logged(<< "usage_" \o opt >>)
    /\ nopts' = nopts + 1
    /\ UNCHANGED <<observed, eargs, has_cmd, events, el, measure_all, interval, cpumask, no_aggr, verbose>>
    /\ UNCHANGED <<forkvars, childvars, setup_args, sigvars, datavars>>

\* getopt_long returns -1: the options are consumed.
OptEnd ==
    /\ pc = "getopt"
    /\ pc' = "check_cmd"
    /\ UNCHANGED <<exit_status, log, optvars, forkvars, childvars, wr_open, setup_args,
                   sigvars, datavars>>

\* main without the check for a target: it goes on to the default list.
CheckCmd_omitted ==
    /\ pc = "check_cmd"
    /\ pc' = "parse_default"
    /\ UNCHANGED <<exit_status, wr_open, log>>
    /\ UNCHANGED <<optvars, forkvars, childvars, setup_args, sigvars, datavars>>

\* if (av[optind] == NULL && !measure_all) exit(1)
CheckCmd ==
    /\ pc = "check_cmd"
    /\ IF ~has_cmd /\ ~measure_all
       THEN /\ Exit(1)
            /\ log' = Logged(<< "no_cmd" >>)
       ELSE /\ pc' = "parse_default"
            /\ UNCHANGED <<exit_status, wr_open, log>>
    /\ UNCHANGED <<optvars, forkvars, childvars, setup_args, sigvars, datavars>>

\* The default list parsed with the result of parse_events ignored.
ParseDefault_ignored ==
    /\ pc = "parse_default"
    /\ IF events
       THEN \E known \in EventDbs :
            IF parse_fails(DefaultEvents, known)
            THEN /\ log' = Logged(<< "parse_fail" >>)
                 /\ UNCHANGED el
            ELSE /\ el' = parse_events(DefaultEvents)
                 /\ log' = Logged(<< "parse_ok" >>)
       ELSE UNCHANGED <<el, log>>
    /\ pc' = "fork"
    /\ UNCHANGED <<exit_status, wr_open>>
    /\ UNCHANGED <<observed, eargs, has_cmd, nopts, events, measure_all, interval, cpumask, no_aggr, verbose>>
    /\ UNCHANGED <<forkvars, childvars, setup_args, sigvars, datavars>>

\* if (events && parse_events(el, events) < 0) exit(1)
ParseDefault ==
    /\ pc = "parse_default"
    /\ IF events
       THEN \E known \in EventDbs :
            IF parse_fails(DefaultEvents, known)
            THEN /\ Exit(1)
                 /\ log' = Logged(<< "parse_fail" >>)
                 /\ UNCHANGED el
            ELSE /\ el' = parse_events(DefaultEvents)
                 /\ log' = Logged(<< "parse_ok" >>)
                 /\ pc' = "fork"
                 /\ UNCHANGED <<exit_status, wr_open>>
       ELSE /\ pc' = "fork"
            /\ UNCHANGED <<el, log, exit_status, wr_open>>
    /\ UNCHANGED <<observed, eargs, has_cmd, nopts, events, measure_all, interval, cpumask, no_aggr, verbose>>
    /\ UNCHANGED <<forkvars, childvars, setup_args, sigvars, datavars>>

\* ---------------------------------------------------- main: the measurement

\* The fork with the release byte written right after it, before
\* setup_events_cpumask.
Fork_released ==
    /\ pc = "fork"
    /\ \/ \E pid \in Pids :
            /\ measure_pid' = pid
            /\ child_pid' = pid
            /\ child' = "reading"
            /\ wr_open' = {"parent", "child"}
            /\ pipe_bytes' = pipe_bytes + 1
            /\ pc' = "setup"
            /\ log' = Logged(<< "fork" >>)
            /\ UNCHANGED exit_status
       \/ /\ measure_pid' = -1
          /\ child_pid' = -1
          /\ pc' = "exited"
          /\ exit_status' = 1
          /\ log' = Logged(<< "fork_fail" >>)
          /\ UNCHANGED <<child, wr_open, pipe_bytes>>
    /\ UNCHANGED <<optvars, execd, setup_args, sigvars, datavars>>

\* pipe(child_pipe); signal(SIGCHLD, SIG_IGN); child_pid = measure_pid = fork();
\* if (measure_pid < 0) err("fork").  The child starts in its read on the
\* pipe; parent and child both hold the write end.
Fork ==
    /\ pc = "fork"
    /\ \/ \E pid \in Pids :
            /\ measure_pid' = pid
            /\ child_pid' = pid
            /\ child' = "reading"
            /\ wr_open' = {"parent", "child"}
            /\ pc' = "setup"
            /\ log' = Logged(<< "fork" >>)
            /\ UNCHANGED exit_status
       \/ /\ measure_pid' = -1
          /\ child_pid' = -1
          /\ pc' = "exited"
          /\ exit_status' = 1
          /\ log' = Logged(<< "fork_fail" >>)
          /\ UNCHANGED <<child, wr_open>>
    /\ UNCHANGED <<optvars, execd, pipe_bytes, setup_args, sigvars, datavars>>

\* setup_events_cpumask called with its result ignored: after a failure the
\* program goes on without any handle.
SetupEvents_ignored ==
    /\ pc = "setup"
    /\ setup_args' = [called |-> TRUE, measure_all |-> measure_all,
                      measure_pid |-> measure_pid, cpumask |-> cpumask]
    /\ \E ok \in BOOLEAN :
        /\ efd' = IF ok THEN setup_events_cpumask(cpumask)
                  ELSE [e \in 1 .. Len(el) |-> [i \in Cpus |-> -1]]
        /\ log' = Logged(<< IF ok THEN "setup_ok" ELSE "setup_fail" >>)
    /\ val' = [e \in 1 .. Len(el) |-> [i \in Cpus |-> ZeroVal]]
    /\ pc' = "handlers"
    /\ UNCHANGED <<exit_status, wr_open>>
    /\ UNCHANGED <<optvars, forkvars, childvars, sigvars, read_rc, hw, steady, out, scaled>>

\* if (setup_events_cpumask(el, measure_all, measure_pid, cpumask) < 0) exit(1)
\* On success every event has its handles and zeroed snapshots.
SetupEvents ==
    /\ pc = "setup"
    /\ setup_args' = [called |-> TRUE, measure_all |-> measure_all,
                      measure_pid |-> measure_pid, cpumask |-> cpumask]
    /\ \E ok \in BOOLEAN :
        IF ok
        THEN /\ efd' = setup_events_cpumask(cpumask)
             /\ val' = [e \in 1 .. Len(el) |-> [i \in Cpus |-> ZeroVal]]
             /\ pc' = "handlers"
             /\ log' = Logged(<< "setup_ok" >>)
             /\ UNCHANGED <<exit_status, wr_open>>
        ELSE /\ Exit(1)
             /\ log' = Logged(<< "setup_fail" >>)
             /\ UNCHANGED <<efd, val>>
    /\ UNCHANGED <<optvars, forkvars, childvars, sigvars, read_rc, hw, steady, out, scaled>>

\* main without signal(SIGINT, sigint): SIGINT keeps its default action.
Handlers_nosigint ==
    /\ pc = "handlers"
    /\ log' = IF verbose # 0 THEN Logged(<< "attr" >>) ELSE log
    /\ timer_armed' = (interval # 0)
    /\ pc' = "release"
    /\ UNCHANGED <<exit_status, optvars, forkvars, childvars, wr_open, setup_args,
                   gotalarm, starttime, ret, ticks, sigint_set, sigint_seen, datavars>>

\* if (verbose) print_event_list_attr(el, stdout); signal(SIGINT, sigint);
\* if (interval) { sigaction(SIGALRM, sigalarm); setitimer(ITIMER_REAL) }
Handlers ==
    /\ pc = "handlers"
    /\ log' = IF verbose # 0 THEN Logged(<< "attr" >>) ELSE log
    /\ sigint_set' = TRUE
    /\ timer_armed' = (interval # 0)
    /\ pc' = "release"
    /\ UNCHANGED <<exit_status, optvars, forkvars, childvars, wr_open, setup_args,
                   gotalarm, starttime, ret, ticks, sigint_seen, datavars>>

\* The call the parent blocks in: waitpid(measure_pid) after a fork, else pause().
WaitCall == IF child_pid >= 0 THEN "waitpid" ELSE "pause"

\* if (child_pid >= 0) { write(child_pipe[1], "x", 1); for (;;) ... waitpid
\* } else { for (;;) ... pause }
Release ==
    /\ pc = "release"
    /\ IF child_pid >= 0
       THEN /\ pipe_bytes' = pipe_bytes + 1
            /\ log' = Logged(<< "release" >>)
       ELSE UNCHANGED <<pipe_bytes, log>>
    /\ pc' = WaitCall
    /\ UNCHANGED <<exit_status, optvars, forkvars, child, execd, wr_open, setup_args,
                   sigvars, datavars>>

\* ret = waitpid(measure_pid, NULL, 0) returns because the child is gone: its
\* pid, or -1 (ECHILD: SIGCHLD is ignored, so the child leaves no status).
WaitReturn ==
    /\ pc = "waitpid"
    /\ child = "exited"
    /\ \E r \in {-1, measure_pid} : ret' = r
    /\ pc' = "cont_measure"
    /\ log' = Logged(<< "wait_ret" >>)
    /\ UNCHANGED <<exit_status, optvars, forkvars, childvars, wr_open, setup_args,
                   gotalarm, starttime, ticks, timer_armed, sigint_set, sigint_seen, datavars>>

\* cont_measure without gotalarm = false.
cont_measure_noclear ==
    IF ret < 0 /\ gotalarm
    THEN /\ pc' = "cm_read"
         /\ log' = Logged(<< "tick" >>)
         /\ UNCHANGED gotalarm
    ELSE /\ pc' = "final_read"
         /\ log' = Logged(<< "leave" >>)
         /\ UNCHANGED gotalarm

\* cont_measure: if (ret < 0 && gotalarm) { gotalarm = false; ... return true }
\* return false, and the loop breaks.
cont_measure ==
    IF ret < 0 /\ gotalarm
    THEN /\ gotalarm' = FALSE
         /\ pc' = "cm_read"
         /\ log' = Logged(<< "tick" >>)
    ELSE /\ pc' = "final_read"
         /\ log' = Logged(<< "leave" >>)
         /\ UNCHANGED gotalarm

ContMeasure ==
    /\ pc = "cont_measure"
    /\ cont_measure
    /\ UNCHANGED <<exit_status, optvars, forkvars, childvars, wr_open, setup_args,
                   starttime, ret, ticks, timer_armed, sigint_set, sigint_seen, datavars>>

\* cont_measure: read_all_events(el)
IntervalRead ==
    /\ pc = "cm_read"
    /\ read_all_events
    /\ pc' = "cm_print"
    /\ UNCHANGED <<exit_status, optvars, forkvars, childvars, wr_open, setup_args,
                   sigvars, out, scaled>>

\* cont_measure: if (!starttime) starttime = gettime();
\* print_data(el, (gettime() - starttime) / 1e6, true, no_aggr); return true
IntervalPrint ==
    /\ pc = "cm_print"
    /\ LET st == IF starttime = 0 THEN gettime ELSE starttime
       IN  /\ starttime' = st
           /\ print_data(gettime - st, TRUE)
    /\ log' = Logged(<< PrintOp(TRUE) >>)
    /\ pc' = WaitCall
    /\ UNCHANGED <<exit_status, observed, eargs, has_cmd, nopts, events, measure_all, interval, cpumask,
                   no_aggr, verbose, forkvars, childvars, wr_open, setup_args,
                   gotalarm, ret, ticks, timer_armed, sigint_set, sigint_seen>>

\* The final read with a failure made fatal: if (read_all_events(el) < 0) exit(1).
FinalRead_fatal ==
    /\ pc = "final_read"
    /\ read_all_events
    /\ IF read_rc' < 0
       THEN Exit(1)
       ELSE /\ pc' = "final_print"
            /\ UNCHANGED <<exit_status, wr_open>>
    /\ UNCHANGED <<optvars, forkvars, childvars, setup_args, sigvars, out, scaled>>

\* main without the read after the loop.
FinalRead_omitted ==
    /\ pc = "final_read"
    /\ pc' = "final_print"
    /\ UNCHANGED <<exit_status, log, optvars, forkvars, childvars, wr_open, setup_args,
                   sigvars, datavars>>

\* main: read_all_events(el) after the loop
FinalRead ==
    /\ pc = "final_read"
    /\ read_all_events
    /\ pc' = "final_print"
    /\ UNCHANGED <<exit_status, optvars, forkvars, childvars, wr_open, setup_args,
                   sigvars, out, scaled>>

\* The final print with print_ts = (interval != 0), whatever starttime is.
FinalPrint_ts_interval ==
    /\ pc = "final_print"
    /\ LET print_ts == (interval # 0)
       IN  /\ print_data(gettime - starttime, print_ts)
           /\ log' = Logged(<< PrintOp(print_ts), "exit0" >>)
    /\ Exit(0)
    /\ UNCHANGED <<observed, eargs, has_cmd, nopts, events, measure_all, interval, cpumask,
                   no_aggr, verbose, forkvars, childvars, setup_args, sigvars>>

\* main: print_data(el, (gettime() - starttime)/1e6, interval != 0 && starttime,
\* no_aggr); return 0
FinalPrint ==
    /\ pc = "final_print"
    /\ LET print_ts == (interval # 0 /\ starttime # 0)
       IN  /\ print_data(gettime - starttime, print_ts)
           /\ log' = Logged(<< PrintOp(print_ts), "exit0" >>)
    /\ Exit(0)
    /\ UNCHANGED <<observed, eargs, has_cmd, nopts, events, measure_all, interval, cpumask,
                   no_aggr, verbose, forkvars, childvars, setup_args, sigvars>>

\* ------------------------------------------------------------- the signals

ParentAlive == pc \notin {"exited", "killed"}
Blocked == pc \in {"waitpid", "pause"}

\* sigalarm: gotalarm = true.  SIGALRM is installed without SA_RESTART: a
\* blocked waitpid or pause returns -1 (EINTR).
sigalarm ==
    /\ gotalarm' = TRUE
    /\ IF Blocked
       THEN /\ ret' = -1
            /\ pc' = "cont_measure"
            /\ log' = Logged(<< "wait_ret" >>)
       ELSE UNCHANGED <<ret, pc, log>>

SigAlarm ==
    /\ ParentAlive
    /\ timer_armed
    /\ observed => ticks < MaxTicks
    /\ ticks' = IF observed THEN ticks + 1 ELSE ticks
    /\ sigalarm
    /\ UNCHANGED <<exit_status, optvars, forkvars, childvars, wr_open, setup_args,
                   starttime, timer_armed, sigint_set, sigint_seen, datavars>>

\* The positions of main after signal(SIGINT, sigint).
AfterHandlers ==
    {"release", "waitpid", "pause", "cont_measure", "cm_read", "cm_print",
     "final_read", "final_print"}

\* SIGINT before signal(SIGINT, sigint): the default action ends the parent.
SigIntKill ==
    /\ ParentAlive
    /\ ~sigint_set
    /\ pc' = "killed"
    /\ wr_open' = wr_open \ {"parent"}
    /\ sigint_seen' = (sigint_seen \/ pc \in AfterHandlers)
    /\ UNCHANGED <<exit_status, log, optvars, forkvars, childvars, setup_args,
                   gotalarm, starttime, ret, ticks, timer_armed, sigint_set, datavars>>

\* sigint: the empty handler.  Where signal() installs it without SA_RESTART a
\* blocked waitpid or pause returns -1 (EINTR); with SA_RESTART, and outside
\* the blocking call, nothing else changes.
SigInt ==
    /\ ParentAlive
    /\ sigint_set
    /\ sigint_seen' = TRUE
    /\ \E eintr \in BOOLEAN :
        IF Blocked /\ eintr
        THEN /\ ret' = -1
             /\ pc' = "cont_measure"
             /\ log' = Logged(<< "wait_ret" >>)
        ELSE UNCHANGED <<ret, pc, log>>
    /\ UNCHANGED <<exit_status, optvars, forkvars, childvars, wr_open, setup_args,
                   gotalarm, starttime, ticks, timer_armed, sigint_set, datavars>>

\* --------------------------------------------------------------- the child

\* The child without its read on the pipe: it goes on right after the fork.
ChildStart_noread ==
    /\ child = "reading"
    /\ IF ~has_cmd
       THEN /\ child' = "paused"
            /\ UNCHANGED <<execd, wr_open>>
       ELSE \E ok \in BOOLEAN :
            IF ok
            THEN /\ child' = "running"
                 /\ execd' = TRUE
                 /\ UNCHANGED wr_open
            ELSE /\ child' = "exited"
                 /\ wr_open' = wr_open \ {"child"}
                 /\ UNCHANGED execd
    /\ UNCHANGED <<pc, exit_status, log, optvars, forkvars, pipe_bytes, setup_args,
                   sigvars, datavars>>

\* read(child_pipe[0], &buf, 1) returns: a byte, or end-of-file once nobody
\* holds the write end.  Then pause() without a command, else execvp; a failed
\* execvp ends in _exit(1).
ChildStart ==
    /\ child = "reading"
    /\ pipe_bytes > 0 \/ wr_open = {}
    /\ pipe_bytes' = IF pipe_bytes > 0 THEN pipe_bytes - 1 ELSE 0
    /\ IF ~has_cmd
       THEN /\ child' = "paused"
            /\ UNCHANGED <<execd, wr_open>>
       ELSE \E ok \in BOOLEAN :
            IF ok
            THEN /\ child' = "running"
                 /\ execd' = TRUE
                 /\ UNCHANGED wr_open
            ELSE /\ child' = "exited"
                 /\ wr_open' = wr_open \ {"child"}
                 /\ UNCHANGED execd
    /\ UNCHANGED <<pc, exit_status, log, optvars, forkvars, setup_args, sigvars, datavars>>

\* The child ends: the monitored command finishes, or a signal ends the child
\* (in its read, in pause or in the command).
ChildExit ==
    /\ child \in {"reading", "running", "paused"}
    /\ child' = "exited"
    /\ wr_open' = wr_open \ {"child"}
    /\ UNCHANGED <<pc, exit_status, log, optvars, forkvars, execd, pipe_bytes, setup_args,
                   sigvars, datavars>>

Next ==
    \/ OptE \/ OptA \/ OptI \/ OptC \/ OptNoAggr \/ OptV \/ OptUsage \/ OptEnd
    \/ CheckCmd \/ ParseDefault \/ Fork \/ SetupEvents \/ Handlers \/ Release
    \/ WaitReturn \/ ContMeasure \/ IntervalRead \/ IntervalPrint
    \/ FinalRead \/ FinalPrint
    \/ SigAlarm \/ SigIntKill \/ SigInt
    \/ ChildStart \/ ChildExit

Spec == Init /\ [][Next]_vars

\* ------------------------------------------------------------------ claims

Has(x) == \E i \in 1 .. Len(log) : log[i] = x
IsRead(x) == x \in {"read", "read_err"}
IsPrint(x) == x \in {"print", "print_ts"}
Count(x) == Cardinality({ i \in 1 .. Len(log) : log[i] = x })
NumReads == Cardinality({ i \in 1 .. Len(log) : IsRead(log[i]) })
NumPrints == Cardinality({ i \in 1 .. Len(log) : IsPrint(log[i]) })

\* The last read_all_events or print_data of a log, "none" without one.
RECURSIVE last_data_op(_)
last_data_op(l) ==
    IF l = << >> THEN "none"
    ELSE IF IsRead(l[Len(l)]) \/ IsPrint(l[Len(l)]) THEN l[Len(l)]
    ELSE last_data_op(SubSeq(l, 1, Len(l) - 1))

\* The state shows the output of a print_data and the snapshot it was made of.
JustPrinted == IsPrint(last_data_op(log))

\* C1: no read_all_events, interval or final, happens before
\* setup_events_cpumask has returned successfully: every read in the log has
\* a successful setup before it, and the handles of every event exist.
C1_ReadAfterSetup ==
    \A i \in 1 .. Len(log) :
        IsRead(log[i]) =>
            /\ \E j \in 1 .. (i - 1) : log[j] = "setup_ok"
            /\ Len(efd) = Len(el)

\* C1 witness: an interval read and the final read both happened.
C1_Witness == Has("tick") /\ NumReads >= 2 /\ pc = "exited"

\* C2: when a parse_events call fails the program exits at once with status
\* 1: no fork, no setup_events_cpumask, no read, no print, no handle.
C2_ParseFailStops ==
    Has("parse_fail") =>
        /\ pc = "exited" /\ exit_status = 1
        /\ log[Len(log)] = "parse_fail"
        /\ ~Has("fork") /\ ~Has("setup_ok") /\ ~Has("setup_fail")
        /\ NumReads = 0 /\ NumPrints = 0
        /\ child = "none" /\ ~setup_args.called
        /\ efd = << >> /\ out = << >>

\* C2 witness: the default event list failed to parse.
C2_Witness == Has("parse_fail") /\ events /\ pc = "exited"

\* C3: when setup_events_cpumask fails the parent exits with status 1, has not
\* written the release byte, the child never exec's the command, and nothing
\* is read or printed.
C3_SetupFailAborts ==
    Has("setup_fail") =>
        /\ pc = "exited" /\ exit_status = 1
        /\ ~Has("release") /\ pipe_bytes = 0
        /\ ~execd /\ child \notin {"running", "paused"}
        /\ NumReads = 0 /\ NumPrints = 0 /\ out = << >>

\* C3 witness: setup failed and the child still sits in its read on the pipe.
C3_Witness == Has("setup_fail") /\ child = "reading" /\ has_cmd

\* The sum of the scaled values of event e over the CPUs in S.
RECURSIVE scaled_sum(_, _)
scaled_sum(e, S) ==
    IF S = {} THEN 0
    ELSE LET i == CHOOSE x \in S : TRUE
         IN  event_scaled_value(e, i) + scaled_sum(e, S \ {i})

ValidCpus(e) == { i \in Cpus : efd[e][i] >= 0 }

C5_NotApplicableSkipped ==
    /\ \A c \in scaled : efd[c[1]][c[2]] >= 0
    /\ \A k \in 1 .. Len(out) :
        out[k].cpu >= 0 => \E e \in 1 .. Len(el) : el[e] = out[k].name /\ efd[e][out[k].cpu] >= 0

\* C6: a failing read_all_events is never fatal: print_data follows it, an
\* interval iteration goes back to waiting, and the exit status is 0.
C6_ReadErrorNotFatal ==
    /\ \A i \in 1 .. Len(log) :
        log[i] = "read_err" =>
            /\ i = Len(log) => pc \in {"cm_print", "final_print"}
            /\ i < Len(log) => IsPrint(log[i + 1])
            /\ (i > 1 /\ log[i - 1] = "tick") =>
                /\ (i + 1 = Len(log) => Blocked)
                /\ (i + 2 <= Len(log) => log[i + 2] = "wait_ret")
    /\ (Has("read_err") /\ pc = "exited") => exit_status = 0

\* C6 witness: an interval read and the final read failed, and the program
\* ended with status 0.
C6_Witness ==
    /\ pc = "exited" /\ exit_status = 0
    /\ \E i \in 1 .. Len(log) - 1 : log[i] = "tick" /\ log[i + 1] = "read_err"
    /\ Len(log) >= 3 /\ log[Len(log) - 2] = "read_err"

\* The log around every processed tick: one read, one timestamped print, and
\* the wait again; after the loop is left no tick is processed.
C7_LogShape ==
    \A i \in 1 .. Len(log) :
        /\ log[i] = "tick" =>
            /\ (i = Len(log) => pc = "cm_read")
            /\ (i + 1 <= Len(log) => IsRead(log[i + 1]))
            /\ (i + 1 = Len(log) => pc = "cm_print")
            /\ (i + 2 <= Len(log) => log[i + 2] = "print_ts")
            /\ (i + 2 = Len(log) => Blocked)
            /\ (i + 3 <= Len(log) => log[i + 3] = "wait_ret")
        /\ log[i] = "leave" =>
            \A j \in (i + 1) .. Len(log) : log[j] \notin {"tick", "wait_ret", "leave"}

\* C7: in interval mode, when the wait returned a negative value and the alarm
\* flag is set, cont_measure clears the flag and does exactly one read and one
\* timestamped print, and the loop waits again; otherwise no interval read is
\* done and the loop ends.
C7_IntervalIteration ==
    /\ [][(pc = "cont_measure" /\ pc' # pc) =>
            IF ret < 0 /\ gotalarm
            THEN gotalarm' = FALSE /\ pc' = "cm_read" /\ log' = Append(log, "tick")
            ELSE pc' = "final_read" /\ log' = Append(log, "leave")
                 /\ gotalarm' = gotalarm]_vars
    /\ []C7_LogShape

\* C7 witness: a tick was processed, then the wait returned a pid with the
\* flag set again, and the loop ended.
C7_Witness ==
    /\ Has("tick") /\ log[Len(log)] = "leave"
    /\ ret >= 0 /\ gotalarm

\* C8: an execution that leaves the wait loop does exactly one final read,
\* then one print, and exits with status 0; with interval == 0 these are the
\* only read and print of the run, after the wait has returned.
C8_FinalReport ==
    /\ \A i \in 1 .. Len(log) :
        log[i] = "leave" =>
            /\ i > 1 /\ log[i - 1] = "wait_ret"
            /\ Len(log) \in {i, i + 1, i + 3}
            /\ (i = Len(log) => pc = "final_read")
            /\ (i + 1 <= Len(log) => IsRead(log[i + 1]))
            /\ (i + 1 = Len(log) => pc = "final_print")
            /\ (i + 3 = Len(log) =>
                    /\ IsPrint(log[i + 2]) /\ log[i + 3] = "exit0"
                    /\ pc = "exited" /\ exit_status = 0)
    /\ (pc = "exited" /\ Has("setup_ok")) => (exit_status = 0 /\ Has("leave"))
    /\ interval = 0 =>
        /\ NumReads <= 1 /\ NumPrints <= 1
        /\ \A i \in 1 .. Len(log) :
            IsRead(log[i]) => (i > 2 /\ log[i - 1] = "leave" /\ log[i - 2] = "wait_ret")

\* C8 witness: a run without interval ended after its only read and print.
C8_Witness ==
    /\ interval = 0 /\ pc = "exited" /\ exit_status = 0
    /\ NumReads = 1 /\ NumPrints = 1 /\ child = "exited"

\* The step is a print_data.
PrintStep == Len(log') > Len(log) /\ IsPrint(log'[Len(log) + 1])

\* C9: print_data, in either mode, renders the snapshot of the last
\* read_all_events: it does not read, and leaves the event list, the handles
\* and the stored counts as they are.
C9_PrintFrame ==
    /\ [][PrintStep =>
            /\ el' = el /\ efd' = efd /\ val' = val /\ read_rc' = read_rc
            /\ \A j \in (Len(log) + 1) .. Len(log') : ~IsRead(log'[j])]_vars
    /\ [](JustPrinted =>
            \A k \in 1 .. Len(out) :
                \E e \in 1 .. Len(el) :
                    /\ el[e] = out[k].name
                    /\ out[k].v = IF out[k].cpu >= 0
                                  THEN event_scaled_value(e, out[k].cpu)
                                  ELSE scaled_sum(e, Cpus))

\* C9 witness: a per-CPU interval report.
C9_Witness == no_aggr /\ Len(log) > 0 /\ log[Len(log)] = "print_ts" /\ Len(out) >= 2 /\ out[1].v > 0

\* C10: setup_events_cpumask is asked for measure_all XOR a process id: never
\* both, never neither.
C10_TargetXor ==
    setup_args.called => (setup_args.measure_all # (setup_args.measure_pid >= 0))

\* C11: the command line accepts -p pid: an invocation with -p does not end
\* in the usage message with exit status 1.
C11_PidOptionAccepted ==
    Has("usage_p") => ~(pc = "exited" /\ exit_status = 1)

\* The step is a read_all_events.
ReadStep == Len(log') = Len(log) + 1 /\ IsRead(log'[Len(log')])

\* The counts of a report, without its timestamps.
Counts(o) == [k \in 1 .. Len(o) |-> <<o[k].cpu, o[k].name, o[k].v>>]

ScaleRaws == {0, 1, 5, 7, 100}

\* The snapshots the kernel can return: the counter ran for no longer than it
\* was enabled, and one that never ran has counted nothing.
ScaleInputs ==
    { t \in ScaleRaws \X (0 .. MaxTime) \X (0 .. MaxTime) :
        t[3] <= t[2] /\ (t[3] = 0 => t[1] = 0) }

\* The program after setup and a read pass that left <<raw, enabled, running>>
\* for its one event on CPU 0, about to print.
ScaleInit ==
    /\ pc = "scale"
    /\ observed = TRUE
    /\ eargs = << << "cpu-cycles" >> >>
    /\ sigint_seen = FALSE
    /\ exit_status = -1
    /\ has_cmd = TRUE
    /\ nopts = 0
    /\ events = FALSE
    /\ el = << "cpu-cycles" >>
    /\ measure_all = FALSE
    /\ measure_pid \in Pids
    /\ child_pid = measure_pid
    /\ interval = 0
    /\ cpumask = NullMask
    /\ no_aggr \in BOOLEAN
    /\ verbose = 0
    /\ efd = setup_events_cpumask(NullMask)
    /\ \E t \in ScaleInputs :
        /\ val = << [i \in Cpus |-> IF i = 0 THEN t ELSE ZeroVal] >>
        /\ hw = t
    /\ gotalarm = FALSE
    /\ starttime = 0
    /\ ret = -1
    /\ ticks = 0
    /\ timer_armed = FALSE
    /\ sigint_set = TRUE
    /\ child = "exited"
    /\ execd = TRUE
    /\ pipe_bytes = 0
    /\ wr_open = {"parent"}
    /\ setup_args = [called |-> TRUE, measure_all |-> FALSE,
                     measure_pid |-> measure_pid, cpumask |-> NullMask]
    /\ read_rc = 0
    /\ steady = FALSE
    /\ out = << >>
    /\ scaled = {}
    /\ log = << "read" >>

\* print_data on that snapshot.
ScalePrint ==
    /\ pc = "scale"
    /\ print_data(0, FALSE)
    /\ log' = Append(log, PrintOp(FALSE))
    /\ pc' = "scaled"
    /\ UNCHANGED <<exit_status, observed, eargs, has_cmd, nopts, events, measure_all, interval, cpumask,
                   no_aggr, verbose, forkvars, childvars, wr_open, setup_args, sigvars>>

ScaleSpec == ScaleInit /\ [][ScalePrint]_vars

\* C13: the value displayed is raw * enabled / running truncated to an
\* integer when running > 0; it is raw when enabled = running, and 200 when
\* raw = 100 and running is half of enabled.
C13_Scaling ==
    pc = "scaled" =>
        LET raw == val[1][0][1]
            ena == val[1][0][2]
            run == val[1][0][3]
            v   == out[1].v
        IN  run > 0 =>
                /\ v >= 0
                /\ v * run <= raw * ena /\ raw * ena < (v + 1) * run
                /\ (ena = run => v = raw)
                /\ (raw = 100 /\ 2 * run = ena => v = 200)

\* C13 witness: raw = 100 with the counter running half of the time was
\* displayed.
C13_Witness ==
    /\ pc = "scaled" /\ val[1][0] = <<100, 4, 2>> /\ out[1].v = 200

\* The parent is through its part of the start: setup_events_cpumask has
\* returned 0, the handlers and the timer are installed, the byte is written.
ParentReady ==
    /\ sigint_set
    /\ interval # 0 => timer_armed
    /\ \E i, j \in 1 .. Len(log) : i < j /\ log[i] = "setup_ok" /\ log[j] = "release"

\* C14: the start handshake: the child leaves its read on the pipe for pause
\* or for the monitored command only after the parent has returned from
\* setup_events_cpumask with success, installed its signal handlers and the
\* interval timer and written the release byte; a child that has exec'ed or
\* pauses always has such a parent.
C14_StartHandshake ==
    /\ []((execd \/ child \in {"running", "paused"}) => ParentReady)
    /\ [][(child = "reading" /\ child' \in {"running", "paused"}) => ParentReady]_vars

C14_Witness == child = "running" /\ execd /\ timer_armed /\ pc = "waitpid" /\ pipe_bytes = 0

\* C15: with neither a command nor -a the program exits with status 1 at the
\* check after the options: the default list is never parsed (only the -e
\* options given were), and there is no fork, no setup_events_cpumask, no read
\* and no print.
C15_NoTargetExits ==
    (~has_cmd /\ ~measure_all /\ pc \notin {"getopt", "check_cmd", "killed"}) =>
        /\ pc = "exited" /\ exit_status = 1
        /\ Count("parse_ok") + Count("parse_fail") = Len(eargs)
        /\ eargs = << >> => el = << >>
        /\ child = "none" /\ measure_pid = -1 /\ ~Has("fork") /\ ~Has("fork_fail")
        /\ ~setup_args.called /\ efd = << >>
        /\ NumReads = 0 /\ NumPrints = 0 /\ out = << >>

C15_Witness == Has("no_cmd") /\ eargs = << >> /\ pc = "exited"

\* ------------------------------------------------------------ termination

\* The runs that are not observed: no log is kept and the timer expires
\* without bound, every interval anew.
LiveInit == observed = FALSE /\ Start

\* The steps of the parent process.
ParentStep ==
    \/ OptE \/ OptA \/ OptI \/ OptC \/ OptNoAggr \/ OptV \/ OptUsage \/ OptEnd
    \/ CheckCmd \/ ParseDefault \/ Fork \/ SetupEvents \/ Handlers \/ Release
    \/ WaitReturn \/ ContMeasure \/ IntervalRead \/ IntervalPrint
    \/ FinalRead \/ FinalPrint

\* The scheduler runs the parent while it can take a step, the child's read
\* returns once it can, and an armed timer keeps expiring.  Nothing makes the
\* monitored command end or a signal arrive.
LiveSpec ==
    /\ LiveInit /\ [][Next]_vars
    /\ WF_vars(ParentStep) /\ WF_vars(ChildStart) /\ WF_vars(SigAlarm)

\* The positions of the loop around waitpid.
InWaitLoop == pc \in {"waitpid", "cont_measure", "cm_read", "cm_print"}

\* C16: termination: once the child is gone, the parent in its wait loop
\* eventually leaves it and exits (through the final read and print) with
\* status 0, also while the interval timer keeps expiring.
C16_Terminates == (child = "exited" /\ InWaitLoop) ~> (pc = "exited" /\ exit_status = 0)

\* C17: the forked child never stays blocked in its read on the pipe, stated
\* for the case the claim names: when the parent has exited (setup failed)
\* with the child still in its read, that read eventually returns, with the
\* release byte or with end-of-file, and the child goes on.
C17_ChildReleased == (child = "reading" /\ pc = "exited") ~> (child # "reading")

\* C18: once signal(SIGINT, sigint) is done, a SIGINT never ends the parent
\* without output: a parent that got a SIGINT after that call and has ended,
\* has ended through the final read_all_events and print_data, with exit
\* status 0.
C18_SigintEndsWithReport ==
    (sigint_seen /\ ~ParentAlive) =>
        /\ pc = "exited" /\ exit_status = 0
        /\ Len(log) >= 3
        /\ IsRead(log[Len(log) - 2])
        /\ IsPrint(log[Len(log) - 1])
        /\ log[Len(log)] = "exit0"

C18_Witness ==
    /\ sigint_seen /\ pc = "exited" /\ exit_status = 0
    /\ interval = 0 /\ child = "running" /\ JustPrinted

\* The lists of the -e options, one after the other.
RECURSIVE Flat(_)
Flat(ss) == IF ss = << >> THEN << >> ELSE Head(ss) \o Flat(Tail(ss))

\* parse_events has returned 0 once more than -e options were given: for the
\* default list.
DefaultParsed == Count("parse_ok") > Len(eargs)

\* C19: the default event list is parsed exactly when no -e option was given;
\* the -e options are parsed in command-line order into the one list; after a
\* -e option the default list is never added.  Stated for the runs in which
\* no parse_events call has failed (a failure ends the run, C2).
C19_EventListSource ==
    ~Has("parse_fail") =>
        /\ events <=> (eargs = << >>)
        /\ Count("parse_ok") = Len(eargs) + (IF DefaultParsed THEN 1 ELSE 0)
        /\ DefaultParsed => (eargs = << >> /\ el = DefaultEvents)
        /\ ~DefaultParsed => el = Flat(eargs)
        /\ (pc = "fork" \/ Has("fork") \/ Has("fork_fail")) =>
                (DefaultParsed <=> (eargs = << >>))

C19_Witness ==
    /\ Len(eargs) = 2 /\ eargs[1] # eargs[2] /\ el = eargs[1] \o eargs[2]
    /\ Has("setup_ok") /\ ~DefaultParsed

\* C20: every interval report carries a timestamp; the final report carries
\* one exactly when interval != 0 and a tick was processed (starttime is
\* non-zero); with interval == 0 no report carries a timestamp.  A print with
\* a timestamp puts it on every line.
C20_Timestamps ==
    /\ \A i \in 1 .. Len(log) :
        /\ (log[i] = "tick" /\ i + 2 <= Len(log)) => log[i + 2] = "print_ts"
        /\ (log[i] = "leave" /\ i + 2 <= Len(log)) =>
                (log[i + 2] = "print_ts" <=> (interval # 0 /\ Has("tick")))
        /\ IsPrint(log[i]) => (i > 2 /\ log[i - 2] \in {"tick", "leave"})
    /\ Has("leave") => (Has("tick") <=> starttime # 0)
    /\ interval = 0 => ~Has("print_ts")
    /\ JustPrinted =>
            \A k \in 1 .. Len(out) : out[k].has_ts = (last_data_op(log) = "print_ts")

C20_Witness ==
    /\ pc = "exited" /\ Len(log) > 1 /\ log[Len(log) - 1] = "print_ts"
    /\ Len(out) > 0 /\ out[1].has_ts /\ out[1].ts > 0
====
